---- MODULE Spec2Model ----
(***************************************************************************)
(* A model of the chem_utils similarity, nearest-neighbour and SMILES      *)
(* canonicalisation code.                                                   *)
(*                                                                         *)
(*   chem_utils/molecular_similarities.py  registry, pairwise similarity   *)
(*                                         functions, the MCS worker pool, *)
(*                                         compute_max_similarities        *)
(*   nearest_neighbor_tanimoto.py          add_nearest_neighbors and the   *)
(*                                         nearest_neighbor_tanimoto tool  *)
(*   chem_utils/canonicalize_smiles.py     canonicalize_smiles             *)
(*                                                                         *)
(* The cheminformatics toolkit (SMILES parsing, canonical SMILES, salt     *)
(* stripping, fingerprints, FindMCS) is outside the repository; it is      *)
(* represented by small deterministic stand-ins that keep what the         *)
(* orchestration code relies on: parsing can fail (None), canonical output *)
(* differs from the input text, fingerprints are bit sets.                 *)
(***************************************************************************)
EXTENDS Integers, Sequences, FiniteSets, TLC

VARIABLES
    registry,     \* SIMILARITY_FUNCTION_REGISTRY: name -> similarity function
    history,      \* history variable: the registrations made so far, in order
    call,         \* the last get_similarity_function / compute_max_similarities call
    mols_1,       \* MCS call: first molecule list (after SMILES conversion)
    mols_2,       \* MCS call: second molecule list (mols_1 when the argument is None)
    pc,           \* MCS call: position of the calling process
    nextTask,     \* MCS pool: how many tasks of the product were handed to workers
    running,      \* MCS pool: tasks a worker is executing
    finished,     \* MCS pool: task -> outcome, for the tasks whose worker is done
    executions,   \* MCS pool: task -> number of times a worker started it
    collected,    \* MCS call: the outcomes imap has yielded to list(...), in order
    returned,     \* MCS call: the matrix returned (Nothing before, and on failure)
    overtaken,    \* history variable: a task finished while an earlier one was running
    canon,        \* the last canonicalize_smiles run: its input and its output
    data,         \* nearest neighbours: the primary table's SMILES column
    columns,      \* nearest neighbours: the columns added to the table
    nn            \* nearest neighbours: the last call on the table

vars == <<registry, history, call, mols_1, mols_2, pc, nextTask, running, finished,
          executions, collected, returned, overtaken, canon, data, columns, nn>>

registryVars == <<registry, history, call>>
mcsVars == <<mols_1, mols_2, pc, nextTask, running, finished, executions, collected,
             returned, overtaken>>
nnVars == <<data, columns, nn>>

\* What a step of one program leaves alone: the state of the others.
notRegistry == <<mcsVars, canon, nnVars>>
notMcs == <<registryVars, canon, nnVars>>
notCanon == <<registryVars, mcsVars, nnVars>>
notNeighbors == <<registryVars, mcsVars, canon>>

-----------------------------------------------------------------------------
(* Bounds of the model.                                                     *)

MaxRegistrations == 3   \* registrations after the module's own three
MaxMols == 3            \* length of a molecule list given to compute_max_similarities
MaxRefs == 2            \* length of its reference list
MaxMcsMols == 2         \* length of each list of an MCS call
NumWorkers == 2         \* worker processes of the pool
MaxRows == 3            \* rows of a CSV given to canonicalize_smiles
MaxData == 2            \* rows of the primary table
MaxReference == 3       \* rows of the reference table
MaxColumns == 2         \* columns of a similarity matrix given to add_nearest_neighbors

-----------------------------------------------------------------------------
(* Sequences and numbers.                                                   *)

SeqsUpTo(S, lo, hi) == UNION {[1..n -> S] : n \in lo..hi}

Range(s) == {s[i] : i \in DOMAIN s}

\* A list whose elements are computed once, when the list is built.
List(s) == s \o <<>>

RECURSIVE GCD(_, _)
GCD(a, b) == IF b = 0 THEN a ELSE GCD(b, a % b)

\* A float that is a ratio of two small naturals: the pair in lowest terms, so that
\* equal quotients are equal values (2/4 and 1/2 are the same float).
Frac(n, d) == LET g == GCD(n, d) IN <<n \div g, d \div g>>

\* -numpy.inf
NegInf == <<-1, 0>>

\* a <= b on those floats
Leq(a, b) == \/ a = NegInf
             \/ b # NegInf /\ a[1] * b[2] <= b[1] * a[2]

Less(a, b) == Leq(a, b) /\ a # b

\* Optional[...] values: Nothing is Python's None, Some(x) a given value.
Nothing == <<>>
Some(x) == <<x>>

-----------------------------------------------------------------------------
(* Molecules and the toolkit's primitives.                                  *)

\* An RDKit molecule, by the set of its atoms; Chem.MolFromSmiles gives None
\* (NoneMol) for a SMILES it cannot parse.
Mol(S) == [parsed |-> TRUE, atoms |-> S]
NoneMol == [parsed |-> FALSE, atoms |-> {}]

Molecules == {Mol({1}), Mol({1, 2}), Mol({2, 3})}

\* mol.GetNumAtoms()
GetNumAtoms(mol) == Cardinality(mol.atoms)

\* A toolkit exception, and a value, as the outcome of a computation.
Raised(what) == [raised |-> TRUE, error |-> what, value |-> 0]
Value(v) == [raised |-> FALSE, error |-> "", value |-> v]

\* FindMCS(mols).numAtoms: the atoms of the largest common substructure of a
\* pair. FindMCS raises when one of the molecules is None.
FindMCS(pair) ==
    IF ~pair[1].parsed \/ ~pair[2].parsed
    THEN Raised("molecule is None")
    ELSE Value(Cardinality(pair[1].atoms \cap pair[2].atoms))

compute_mcs_size(pair) == FindMCS(pair)

\* compute_fingerprints(mols, fingerprint_type='morgan'): one bit set per molecule.
compute_fingerprints(mols) == List([i \in DOMAIN mols |-> mols[i].atoms])

-----------------------------------------------------------------------------
(* The pairwise similarity functions.                                       *)

\* 1 - pairwise_distances(..., metric='jaccard') on two bit vectors.
TanimotoOfBits(a, b) ==
    IF a \cup b = {} THEN Frac(1, 1)
    ELSE Frac(Cardinality(a \cap b), Cardinality(a \cup b))

compute_pairwise_tanimoto_similarities(m1, m2) ==
    LET fps_1 == compute_fingerprints(m1)
        fps_2 == IF m2 # Nothing THEN compute_fingerprints(m2[1]) ELSE fps_1
    IN  List([i \in DOMAIN fps_1 |->
                List([j \in DOMAIN fps_2 |-> TanimotoOfBits(fps_1[i], fps_2[j])])])

compute_pairwise_tversky_similarities(m1, m2) ==
    LET fps_1 == compute_fingerprints(m1)
        fps_2 == IF m2 # Nothing THEN compute_fingerprints(m2[1]) ELSE fps_1
        intersection == List([i \in DOMAIN fps_1 |->
                            List([j \in DOMAIN fps_2 |-> Cardinality(fps_1[i] \cap fps_2[j])])])
        size_2 == List([j \in DOMAIN fps_2 |-> Cardinality(fps_2[j])])
    IN  List([i \in DOMAIN fps_1 |->
                List([j \in DOMAIN fps_2 |-> Frac(intersection[i][j], size_2[j])])])

\* itertools.product(a, b): the pairs, the first list outermost.
Product(a, b) ==
    List([k \in 1..(Len(a) * Len(b)) |->
            <<a[((k - 1) \div Len(b)) + 1], b[((k - 1) % Len(b)) + 1]>>])

\* flat.reshape(rows, cols), row-major.
Reshape(flat, rows, cols) ==
    List([i \in 1..rows |-> List([j \in 1..cols |-> flat[(i - 1) * cols + j]])])

\* pairwise_mcs / num_atoms_2: each column j divided by num_atoms_2[j].
DivideColumns(matrix, divisors) ==
    List([i \in DOMAIN matrix |->
            List([j \in DOMAIN matrix[i] |-> Frac(matrix[i][j], divisors[j])])])

\* What compute_pairwise_mcs_similarities computes from the list imap produced.
McsMatrix(values, m1, m2) ==
    LET pairwise_mcs == Reshape(values, Len(m1), Len(m2))
        num_atoms_2 == List([j \in DOMAIN m2 |-> GetNumAtoms(m2[j])])
    IN  DivideColumns(pairwise_mcs, num_atoms_2)

\* compute_pairwise_mcs_similarities on parsed molecules, as a function of its
\* arguments: the pool's imap yields the tasks' results in task order.
compute_pairwise_mcs_similarities(m1, m2) ==
    LET second == IF m2 # Nothing THEN m2[1] ELSE m1
        tasks == Product(m1, second)
    IN  McsMatrix(List([k \in DOMAIN tasks |-> compute_mcs_size(tasks[k]).value]),
                  m1, second)

-----------------------------------------------------------------------------
(* The similarity function registry.                                        *)

TanimotoFn == "compute_pairwise_tanimoto_similarities"
McsFn == "compute_pairwise_mcs_similarities"
TverskyFn == "compute_pairwise_tversky_similarities"
NoFn == "no function"

\* Calling a registered function.
Apply(fn, m1, m2) ==
    CASE fn = TanimotoFn -> compute_pairwise_tanimoto_similarities(m1, m2)
      [] fn = McsFn -> compute_pairwise_mcs_similarities(m1, m2)
      [] fn = TverskyFn -> compute_pairwise_tversky_similarities(m1, m2)

\* d.setdefault(k, v): an entry already there is kept.
DictSetKeepFirst(d, k, v) ==
    [x \in DOMAIN d \cup {k} |-> IF x \in DOMAIN d THEN d[x] ELSE v]

\* A dict as a function on its keys; d[k] = v.
DictSet(d, k, v) ==
    [x \in DOMAIN d \cup {k} |-> IF x = k THEN v ELSE d[x]]

\* The registry once the module is imported: the three decorated functions.
StaticRegistry ==
    DictSet(DictSet(DictSet(<<>>, "tanimoto", TanimotoFn), "mcs", McsFn),
            "tversky", TverskyFn)

\* A lookup that falls back to the Tanimoto function for a name it does not know.
get_similarity_function_default(reg, similarity_type) ==
    IF similarity_type \notin DOMAIN reg
    THEN [raised |-> FALSE, error |-> "", key |-> "", fn |-> reg["tanimoto"]]
    ELSE [raised |-> FALSE, error |-> "", key |-> "", fn |-> reg[similarity_type]]

\* get_similarity_function: the function, or a ValueError whose message quotes the
\* name asked for.
get_similarity_function(reg, similarity_type) ==
    IF similarity_type \notin DOMAIN reg
    THEN [raised |-> TRUE, error |-> "ValueError", key |-> similarity_type, fn |-> NoFn]
    ELSE [raised |-> FALSE, error |-> "", key |-> "", fn |-> reg[similarity_type]]

\* The matrix with its diagonal left as it is.
no_fill_diagonal(matrix, value) == matrix

\* np.fill_diagonal(matrix, value)
fill_diagonal(matrix, value) ==
    List([i \in DOMAIN matrix |->
            List([j \in DOMAIN matrix[i] |-> IF i = j THEN value ELSE matrix[i][j]])])

\* np.max of one row: a scan keeping the largest value seen.
RECURSIVE MaxFrom(_, _, _)
MaxFrom(row, k, best) ==
    IF k > Len(row) THEN best
    ELSE MaxFrom(row, k + 1, IF Less(best, row[k]) THEN row[k] ELSE best)

RowMax(row) == MaxFrom(row, 2, row[1])

NoCall ==
    [op |-> "none", similarity_type |-> "", mols |-> <<>>, reference_mols |-> Nothing,
     raised |-> FALSE, error |-> "", key |-> "", fn |-> NoFn, started |-> 0,
     result |-> <<>>]

\* The decorator returned by register_similarity_function(similarity_type), applied.
register_similarity_function(similarity_type, similarity_function) ==
    /\ Len(history) < MaxRegistrations
    /\ registry' = DictSet(registry, similarity_type, similarity_function)
    /\ history' = Append(history, <<similarity_type, similarity_function>>)
    /\ UNCHANGED call

GetSimilarityFunction(similarity_type) ==
    LET got == get_similarity_function(registry, similarity_type)
    IN  /\ call' = [NoCall EXCEPT !.op = "get_similarity_function",
                                  !.similarity_type = similarity_type,
                                  !.raised = got.raised, !.error = got.error,
                                  !.key = got.key, !.fn = got.fn]
        /\ UNCHANGED <<registry, history>>

\* compute_max_similarities under the registry `reg`, as the record of the call:
\* started counts the pairwise similarity computations begun.
compute_max_similarities(reg, similarity_type, mols, reference_mols) ==
    LET got == get_similarity_function(reg, similarity_type)
        pairwise_similarities == Apply(got.fn, mols, reference_mols)
        masked == IF reference_mols = Nothing
                  THEN fill_diagonal(pairwise_similarities, NegInf)
                  ELSE pairwise_similarities
    IN  IF got.raised
        THEN [NoCall EXCEPT !.op = "compute_max_similarities",
                            !.similarity_type = similarity_type,
                            !.mols = mols, !.reference_mols = reference_mols,
                            !.raised = TRUE, !.error = got.error, !.key = got.key]
        ELSE [NoCall EXCEPT !.op = "compute_max_similarities",
                            !.similarity_type = similarity_type,
                            !.mols = mols, !.reference_mols = reference_mols,
                            !.fn = got.fn, !.started = 1,
                            !.result = List([i \in DOMAIN masked |-> RowMax(masked[i])])]

-----------------------------------------------------------------------------
(* compute_pairwise_mcs_similarities: the worker pool.                      *)

\* The molecules of an MCS call after the SMILES conversion of its arguments: a
\* SMILES that does not parse has become None.
McsMolecules == {NoneMol, Mol({1}), Mol({1, 2})}

\* product(mols_1, mols_2), the tasks of pool.imap in the order they are generated.
Tasks == Product(mols_1, mols_2)

NumTasks == Len(mols_1) * Len(mols_2)

\* A worker takes the next task off the pool's task queue.
WorkerTake ==
    /\ pc \in {"pool", "unwinding"}
    /\ nextTask < NumTasks
    /\ Cardinality(running) < NumWorkers
    /\ nextTask' = nextTask + 1
    /\ running' = running \cup {nextTask + 1}
    /\ executions' = [executions EXCEPT ![nextTask + 1] = @ + 1]
    /\ UNCHANGED <<mols_1, mols_2, pc, finished, collected, returned, overtaken>>
    /\ UNCHANGED notMcs

\* A worker that turns a failed computation into the value 0.
WorkerOutcomeSwallowed(t) ==
    LET r == compute_mcs_size(Tasks[t]) IN IF r.raised THEN Value(0) ELSE r

\* The outcome a worker sends back for a task: the value, or the exception raised.
WorkerOutcome(t) == compute_mcs_size(Tasks[t])

\* A worker finishes its task, in any order among the running ones.
WorkerComplete(t) ==
    /\ pc \in {"pool", "unwinding"}
    /\ t \in running
    /\ running' = running \ {t}
    /\ finished' = [x \in DOMAIN finished \cup {t} |->
                       IF x = t THEN WorkerOutcome(t) ELSE finished[x]]
    /\ overtaken' = (overtaken \/ \E u \in running : u < t)
    /\ UNCHANGED <<mols_1, mols_2, pc, nextTask, executions, collected, returned>>
    /\ UNCHANGED notMcs

\* The task whose result imap_unordered would yield next: any finished one not
\* yet yielded.
ImapUnorderedReady ==
    {t \in DOMAIN finished : \A k \in DOMAIN collected : collected[k].task # t}

\* The task whose result imap yields next: the next in task order, once finished.
ImapReady ==
    {t \in DOMAIN finished : t = Len(collected) + 1}

\* list(pool.imap(...)) takes the next result; a task's exception is re-raised in
\* the caller.
ImapNext ==
    /\ pc = "pool"
    /\ \E t \in ImapReady :
         IF finished[t].raised
         THEN /\ pc' = "unwinding"
              /\ UNCHANGED collected
         ELSE /\ collected' = Append(collected, [task |-> t, value |-> finished[t].value])
              /\ UNCHANGED pc
    /\ UNCHANGED <<mols_1, mols_2, nextTask, running, finished, executions, returned,
                   overtaken>>
    /\ UNCHANGED notMcs

\* The exception leaves the with block: Pool.__exit__ terminates the workers and
\* the exception reaches the caller.
PoolExitOnError ==
    /\ pc = "unwinding"
    /\ pc' = "raised"
    /\ running' = {}
    /\ UNCHANGED <<mols_1, mols_2, nextTask, finished, executions, collected, returned,
                   overtaken>>
    /\ UNCHANGED notMcs

\* Every result was yielded: the with block ends, the list is reshaped and divided.
Return ==
    /\ pc = "pool"
    /\ Len(collected) = NumTasks
    /\ IF \E j \in DOMAIN mols_2 : ~mols_2[j].parsed
       THEN /\ pc' = "raised"
            /\ UNCHANGED returned
       ELSE /\ pc' = "returned"
            /\ returned' = Some(McsMatrix(List([k \in DOMAIN collected |->
                                                    collected[k].value]),
                                          mols_1, mols_2))
    /\ UNCHANGED <<mols_1, mols_2, nextTask, running, finished, executions, collected,
                   overtaken>>
    /\ UNCHANGED notMcs

-----------------------------------------------------------------------------
(* SMILES strings: sequences of characters.                                 *)

CodePoint(c) ==
    CASE c = "." -> 46
      [] c = "C" -> 67
      [] c = "I" -> 73
      [] c = "N" -> 78
      [] c = "O" -> 79
      [] c = "x" -> 120

AtomSymbols == {"C", "I", "N", "O"}

\* a < b for Python strings: lexicographic by code point.
RECURSIVE StrLess(_, _)
StrLess(a, b) ==
    IF b = <<>> THEN FALSE
    ELSE IF a = <<>> THEN TRUE
    ELSE IF a[1] = b[1] THEN StrLess(Tail(a), Tail(b))
    ELSE CodePoint(a[1]) < CodePoint(b[1])

RECURSIVE InsertSorted(_, _)
InsertSorted(x, sorted) ==
    IF sorted = <<>> THEN <<x>>
    ELSE IF StrLess(x, sorted[1]) THEN <<x>> \o sorted
    ELSE <<sorted[1]>> \o InsertSorted(x, Tail(sorted))

\* The strings of s in ascending order (equal strings keep their order).
RECURSIVE SortStrings(_)
SortStrings(s) ==
    IF s = <<>> THEN <<>>
    ELSE InsertSorted(s[Len(s)], SortStrings(SubSeq(s, 1, Len(s) - 1)))

\* s.split('.')
RECURSIVE SplitFrom(_, _, _)
SplitFrom(s, k, current) ==
    IF k > Len(s) THEN <<current>>
    ELSE IF s[k] = "." THEN <<current>> \o SplitFrom(s, k + 1, <<>>)
    ELSE SplitFrom(s, k + 1, Append(current, s[k]))

Split(s) == SplitFrom(s, 1, <<>>)

\* '.'.join(parts)
RECURSIVE Join(_)
Join(parts) ==
    IF parts = <<>> THEN <<>>
    ELSE IF Len(parts) = 1 THEN parts[1]
    ELSE parts[1] \o <<".">> \o Join(Tail(parts))

Reverse(s) == List([i \in 1..Len(s) |-> s[Len(s) + 1 - i]])

\* data[mask] on a list of booleans: the entries whose mask is True, in order.
RECURSIVE SelectRows(_, _)
SelectRows(rows, mask) ==
    IF rows = <<>> THEN <<>>
    ELSE (IF mask[1] THEN <<rows[1]>> ELSE <<>>) \o SelectRows(Tail(rows), Tail(mask))

\* sum(mask) on a list of booleans
RECURSIVE CountTrue(_)
CountTrue(mask) ==
    IF mask = <<>> THEN 0
    ELSE (IF mask[1] THEN 1 ELSE 0) + CountTrue(Tail(mask))

-----------------------------------------------------------------------------
(* The toolkit on SMILES: chains of atoms joined by '.' into fragments.     *)

NoneParsed == [parsed |-> FALSE, fragments |-> <<>>]

\* Chem.MolFromSmiles: None unless every fragment is a non-empty chain of atoms.
MolFromSmiles(smiles) ==
    LET frags == Split(smiles)
    IN  IF \A f \in DOMAIN frags :
              frags[f] # <<>> /\ \A k \in DOMAIN frags[f] : frags[f][k] \in AtomSymbols
        THEN [parsed |-> TRUE, fragments |-> frags]
        ELSE NoneParsed

\* A chain reads the same from either end; its canonical text is the smaller one.
CanonicalFragment(f) == IF StrLess(Reverse(f), f) THEN Reverse(f) ELSE f

\* Chem.MolToSmiles: the canonical SMILES, fragments canonical and in order.
MolToSmiles(mol) ==
    Join(SortStrings(List([f \in DOMAIN mol.fragments |->
                              CanonicalFragment(mol.fragments[f])])))

IsSalt(f) == f = <<"I">>

\* SaltRemover().StripMol(mol, dontRemoveEverything=True): the salt fragments are
\* removed, unless that would remove the whole molecule.
StripMol(mol) ==
    LET keep == SelectRows(mol.fragments,
                           List([f \in DOMAIN mol.fragments |-> ~IsSalt(mol.fragments[f])]))
    IN  IF keep = <<>> THEN mol ELSE [mol EXCEPT !.fragments = keep]

-----------------------------------------------------------------------------
(* canonicalize_smiles                                                      *)

SmilesPool ==
    { <<"C", "O">>, <<"O", "C">>, <<"C", ".", "I">>, <<"C", ".", "C">>,
      <<"I">>, <<"x">> }

NoRun ==
    [ran |-> FALSE, input |-> <<>>, remove_salts |-> FALSE,
     delete_disconnected_mols |-> FALSE, output |-> <<>>,
     invalid_reported |-> Nothing, disconnected_reported |-> Nothing]

\* sum(mask), the number of True entries
CountValid(mask) == CountTrue(mask)

\* len(mask) - sum(mask), the count a message reports
CountFalse(mask) == Len(mask) - CountTrue(mask)

\* ['.' in smiles for smiles in data[smiles_column]]
DisconnectedMols(rows) ==
    List([i \in DOMAIN rows |-> \E k \in DOMAIN rows[i].smiles : rows[i].smiles[k] = "."])

\* ['.' not in smiles for smiles in data[smiles_column]]
ConnectedMols(rows) ==
    List([i \in DOMAIN rows |-> \A k \in DOMAIN rows[i].smiles : rows[i].smiles[k] # "."])

\* One run of canonicalize_smiles on a CSV whose SMILES column is `smiles`, as the
\* record of the run; a row is its position in the file (which stands for its other
\* columns) and its SMILES.
canonicalize_smiles(smiles, remove_salts, delete_disconnected_mols) ==
    LET loaded == List([i \in DOMAIN smiles |-> [row |-> i, smiles |-> smiles[i]]])
        parsed == List([i \in DOMAIN smiles |-> MolFromSmiles(smiles[i])])
        valid_mols == List([i \in DOMAIN parsed |-> parsed[i].parsed])
        all_valid == \A i \in DOMAIN valid_mols : valid_mols[i]
        data_1 == IF all_valid THEN loaded ELSE SelectRows(loaded, valid_mols)
        mols_a == IF all_valid THEN parsed ELSE SelectRows(parsed, valid_mols)
        mols_b == IF remove_salts THEN List([i \in DOMAIN mols_a |-> StripMol(mols_a[i])])
                  ELSE mols_a
        data_2 == List([i \in DOMAIN data_1 |->
                           [data_1[i] EXCEPT !.smiles = MolToSmiles(mols_b[i])]])
        connected_mols == ConnectedMols(data_2)
        all_connected == \A i \in DOMAIN connected_mols : connected_mols[i]
        data_3 == IF delete_disconnected_mols /\ ~all_connected
                  THEN SelectRows(data_2, connected_mols)
                  ELSE data_2
    IN  [ran |-> TRUE, input |-> smiles, remove_salts |-> remove_salts,
         delete_disconnected_mols |-> delete_disconnected_mols,
         output |-> data_3,
         invalid_reported |->
             IF all_valid THEN Nothing ELSE Some(CountFalse(valid_mols)),
         disconnected_reported |->
             IF delete_disconnected_mols /\ ~all_connected
             THEN Some(CountFalse(connected_mols)) ELSE Nothing]

-----------------------------------------------------------------------------
(* nearest_neighbor_tanimoto                                                *)

\* The SMILES of the primary and reference tables: "CO" and "OC" are two texts
\* of one molecule, so they tie in every similarity.
NeighborPool == { <<"C", "O">>, <<"O", "C">>, <<"C">> }

\* compute_morgan_fingerprints: one bit set per SMILES, the atoms it holds.
compute_morgan_fingerprints(smiles) ==
    List([i \in DOMAIN smiles |-> {smiles[i][k] : k \in DOMAIN smiles[i]}])

\* The Jaccard distance of two bit vectors (0 when both are empty).
JaccardDistance(a, b) ==
    IF a \cup b = {} THEN Frac(0, 1)
    ELSE Frac(Cardinality(a \cup b) - Cardinality(a \cap b), Cardinality(a \cup b))

compute_pairwise_tanimoto_distances(m1, m2) ==
    LET fps_1 == compute_morgan_fingerprints(m1)
        fps_2 == compute_morgan_fingerprints(m2)
    IN  List([i \in DOMAIN fps_1 |->
                List([j \in DOMAIN fps_2 |-> JaccardDistance(fps_1[i], fps_2[j])])])

\* 1 - distances, entry by entry
OneMinus(matrix) ==
    List([i \in DOMAIN matrix |->
            List([j \in DOMAIN matrix[i] |->
                     Frac(matrix[i][j][2] - matrix[i][j][1], matrix[i][j][2])])])

\* The rows as they are, duplicates included.
keep_duplicates(s) == s

\* DataFrame.drop_duplicates(subset=column): the first row of each value is kept.
RECURSIVE drop_duplicates(_)
drop_duplicates(s) ==
    IF s = <<>> THEN <<>>
    ELSE LET front == drop_duplicates(SubSeq(s, 1, Len(s) - 1))
         IN  IF s[Len(s)] \in Range(front) THEN front ELSE Append(front, s[Len(s)])

\* DataFrame.sort_values(by=column, ignore_index=True)
sort_values(s) == SortStrings(s)

\* np.argmax of one row: with >=, a later equal value replaces the earlier one.
RECURSIVE ArgMaxLastFrom(_, _, _)
ArgMaxLastFrom(row, k, best) ==
    IF k > Len(row) THEN best
    ELSE ArgMaxLastFrom(row, k + 1, IF Leq(row[best], row[k]) THEN k ELSE best)

ArgMaxLast(row) == ArgMaxLastFrom(row, 2, 1)

\* np.argmax of one row: the first index holding the largest value.
RECURSIVE ArgMaxFrom(_, _, _)
ArgMaxFrom(row, k, best) ==
    IF k > Len(row) THEN best
    ELSE ArgMaxFrom(row, k + 1, IF Less(row[best], row[k]) THEN k ELSE best)

ArgMax(row) == ArgMaxFrom(row, 2, 1)

\* The column f'{prefix}{name}'
ColumnName(prefix, name) == <<prefix, name>>

\* add_nearest_neighbors with its check made after the first column is written
add_nearest_neighbors_late_check(cols, similarities, reference_smiles, prefix) ==
    LET max_similarity_indices ==
            List([i \in DOMAIN similarities |-> ArgMax(similarities[i])])
        with_neighbor ==
            DictSet(cols, ColumnName(prefix, "nearest_neighbor"),
                    [i \in DOMAIN similarities |->
                        IF max_similarity_indices[i] \in DOMAIN reference_smiles
                        THEN reference_smiles[max_similarity_indices[i]]
                        ELSE reference_smiles[1]])
    IN  IF Len(similarities[1]) # Len(reference_smiles)
        THEN [raised |-> TRUE, error |-> "AssertionError", columns |-> with_neighbor]
        ELSE [raised |-> FALSE, error |-> "",
              columns |->
                DictSet(with_neighbor, ColumnName(prefix, "nearest_neighbor_similarity"),
                        [i \in DOMAIN similarities |->
                            similarities[i][max_similarity_indices[i]]])]

\* add_nearest_neighbors on the table's columns: the columns afterwards, or the
\* AssertionError of its first line.
add_nearest_neighbors(cols, similarities, reference_smiles, prefix) ==
    IF Len(similarities[1]) # Len(reference_smiles)
    THEN [raised |-> TRUE, error |-> "AssertionError", columns |-> cols]
    ELSE LET max_similarity_indices ==
                 List([i \in DOMAIN similarities |-> ArgMax(similarities[i])])
             with_neighbor ==
                 DictSet(cols, ColumnName(prefix, "nearest_neighbor"),
                         [i \in DOMAIN similarities |->
                             reference_smiles[max_similarity_indices[i]]])
         IN  [raised |-> FALSE, error |-> "",
              columns |->
                DictSet(with_neighbor, ColumnName(prefix, "nearest_neighbor_similarity"),
                        [i \in DOMAIN similarities |->
                            similarities[i][max_similarity_indices[i]]])]

NoNeighborCall ==
    [op |-> "none", reference_in |-> <<>>, reference_smiles |-> <<>>,
     similarities |-> <<>>, prefix |-> <<>>, raised |-> FALSE, error |-> ""]

\* f'{reference_name}_' if reference_name is not None else ''
Prefix(reference_name) == IF reference_name # Nothing THEN <<reference_name[1], "_">> ELSE <<>>

\* One run of nearest_neighbor_tanimoto on the primary table (its SMILES and the
\* columns it holds) and a reference table: the columns afterwards, and the call.
nearest_neighbor_tanimoto(smiles, cols, reference_in, reference_name) ==
    LET reference_data == sort_values(drop_duplicates(reference_in))
        similarities == OneMinus(compute_pairwise_tanimoto_distances(smiles, reference_data))
        prefix == Prefix(reference_name)
        added == add_nearest_neighbors(cols, similarities, reference_data, prefix)
    IN  [columns |-> added.columns,
         call |-> [op |-> "nearest_neighbor_tanimoto", reference_in |-> reference_in,
                   reference_smiles |-> reference_data, similarities |-> similarities,
                   prefix |-> prefix, raised |-> added.raised, error |-> added.error]]

\* A call of add_nearest_neighbors on the table, with the similarities of the
\* table's SMILES to the SMILES `column_smiles` and the reference SMILES given.
AddNearestNeighbors(smiles, cols, column_smiles, reference_smiles, reference_name) ==
    LET similarities == OneMinus(compute_pairwise_tanimoto_distances(smiles, column_smiles))
        prefix == Prefix(reference_name)
        added == add_nearest_neighbors(cols, similarities, reference_smiles, prefix)
    IN  [columns |-> added.columns,
         call |-> [op |-> "add_nearest_neighbors", reference_in |-> <<>>,
                   reference_smiles |-> reference_smiles, similarities |-> similarities,
                   prefix |-> prefix, raised |-> added.raised, error |-> added.error]]

\* The table after a call, and the call.
Annotate(done) ==
    /\ columns' = done.columns
    /\ nn' = done.call
    /\ UNCHANGED data

-----------------------------------------------------------------------------
(* Initial states and specifications, one per program.                      *)

RegistryIdle == registry = StaticRegistry /\ history = <<>> /\ call = NoCall

McsIdle ==
    /\ mols_1 = <<>> /\ mols_2 = <<>> /\ pc = "idle" /\ nextTask = 0
    /\ running = {} /\ finished = <<>> /\ executions = <<>> /\ collected = <<>>
    /\ returned = Nothing /\ overtaken = FALSE

CanonIdle == canon = NoRun

NeighborIdle == data = <<>> /\ columns = <<>> /\ nn = NoNeighborCall

\* -- the registry, and calls that look a name up --------------------------------

Names == {"tanimoto", "mcs", "tversky", "custom"}

RegisteredLater == {"tanimoto", "custom"}
RegisteredFunctions == {McsFn, TverskyFn}

RegistryCallMols == {<<Mol({1}), Mol({1, 2})>>}
RegistryCallRefs == {Nothing, Some(<<Mol({2, 3})>>)}

InitRegistry == RegistryIdle /\ McsIdle /\ CanonIdle /\ NeighborIdle

Register ==
    /\ \E name \in RegisteredLater, fn \in RegisteredFunctions :
         register_similarity_function(name, fn)
    /\ UNCHANGED notRegistry

Lookup ==
    /\ \E name \in Names : GetSimilarityFunction(name)
    /\ UNCHANGED notRegistry

ComputeMaxByName ==
    /\ \E name \in Names, mols \in RegistryCallMols, refs \in RegistryCallRefs :
         call' = compute_max_similarities(registry, name, mols, refs)
    /\ UNCHANGED <<registry, history>>
    /\ UNCHANGED notRegistry

NextRegistry ==
    \/ Register
    \/ Lookup
    \/ ComputeMaxByName

SpecRegistry == InitRegistry /\ [][NextRegistry]_vars

\* -- compute_max_similarities on the module's own registry -----------------------

MolLists == SeqsUpTo(Molecules, 1, MaxMols)
ReferenceLists == {Nothing} \cup {Some(m) : m \in SeqsUpTo(Molecules, 1, MaxRefs)}

\* One call per run.
ComputeMax ==
    /\ call.op = "none"
    /\ \E name \in Names, mols \in MolLists, refs \in ReferenceLists :
         call' = compute_max_similarities(registry, name, mols, refs)
    /\ UNCHANGED <<registry, history>>
    /\ UNCHANGED notRegistry

SpecMax == InitRegistry /\ [][ComputeMax]_vars

\* -- one call of compute_pairwise_mcs_similarities -------------------------------

McsLists == SeqsUpTo(McsMolecules, 1, MaxMcsMols)

InitMcs ==
    /\ RegistryIdle /\ CanonIdle /\ NeighborIdle
    /\ \E m1 \in McsLists, arg \in {Nothing} \cup {Some(m) : m \in McsLists} :
         /\ mols_1 = m1
         /\ mols_2 = IF arg # Nothing THEN arg[1] ELSE m1
         /\ executions = [t \in 1..(Len(m1) * Len(IF arg # Nothing THEN arg[1] ELSE m1)) |-> 0]
    /\ pc = "pool" /\ nextTask = 0 /\ running = {} /\ finished = <<>>
    /\ collected = <<>> /\ returned = Nothing /\ overtaken = FALSE

McsStep ==
    \/ WorkerTake
    \/ \E t \in running : WorkerComplete(t)
    \/ ImapNext
    \/ PoolExitOnError
    \/ Return

SpecMcs == InitMcs /\ [][McsStep]_vars

\* -- one run of canonicalize_smiles ---------------------------------------------

InitCanon == RegistryIdle /\ McsIdle /\ CanonIdle /\ NeighborIdle

\* One run per process.
Canonicalize ==
    /\ ~canon.ran
    /\ \E smiles \in SeqsUpTo(SmilesPool, 0, MaxRows),
          remove_salts \in BOOLEAN, delete_disconnected_mols \in BOOLEAN :
         canon' = canonicalize_smiles(smiles, remove_salts, delete_disconnected_mols)
    /\ UNCHANGED notCanon

SpecCanon == InitCanon /\ [][Canonicalize]_vars

\* -- nearest neighbours on one primary table -------------------------------------

\* The columns a primary CSV already holds when it was annotated before, without
\* a reference name, against the single reference SMILES "CN".
EarlierAnnotation(smiles) ==
    add_nearest_neighbors(<<>>,
        OneMinus(compute_pairwise_tanimoto_distances(smiles, << <<"C", "N">> >>)),
        << <<"C", "N">> >>, <<>>).columns

ReferenceNames == {Nothing, Some("ref")}

InitNeighbors ==
    /\ RegistryIdle /\ McsIdle /\ CanonIdle
    /\ data \in SeqsUpTo(NeighborPool, 1, MaxData)
    /\ columns \in {<<>>, EarlierAnnotation(data)}
    /\ nn = NoNeighborCall

\* One call per run.
RunNearestNeighborTanimoto ==
    /\ nn.op = "none"
    /\ \E reference_in \in SeqsUpTo(NeighborPool, 1, MaxReference),
          reference_name \in ReferenceNames :
         Annotate(nearest_neighbor_tanimoto(data, columns, reference_in, reference_name))
    /\ UNCHANGED notNeighbors

CallAddNearestNeighbors ==
    /\ nn.op = "none"
    /\ \E column_smiles \in SeqsUpTo(NeighborPool, 1, MaxColumns),
          reference_smiles \in SeqsUpTo(NeighborPool, 1, MaxColumns),
          reference_name \in ReferenceNames :
         Annotate(AddNearestNeighbors(data, columns, column_smiles, reference_smiles,
                                      reference_name))
    /\ UNCHANGED notNeighbors

NextNeighbors ==
    \/ RunNearestNeighborTanimoto
    \/ CallAddNearestNeighbors

SpecNeighbors == InitNeighbors /\ [][NextNeighbors]_vars

-----------------------------------------------------------------------------
(* Properties.                                                              *)

\* C1: when compute_pairwise_mcs_similarities returns, the matrix has one row per
\* molecule of mols_1 and one column per molecule of mols_2, and entry (i, j) is the
\* MCS result of the pair (mols_1[i], mols_2[j]), in whatever order the workers
\* finished their tasks.
McsMatrixFollowsProduct ==
    pc = "returned" =>
        /\ returned # Nothing
        /\ Len(returned[1]) = Len(mols_1)
        /\ \A i \in DOMAIN mols_1 :
             /\ Len(returned[1][i]) = Len(mols_2)
             /\ \A j \in DOMAIN mols_2 :
                  returned[1][i][j] =
                      Frac(FindMCS(<<mols_1[i], mols_2[j]>>).value, GetNumAtoms(mols_2[j]))

\* A matrix of at least 2 x 2 with unequal entries was returned after a task had
\* finished before an earlier one.
McsReturnedAfterOvertaking ==
    /\ pc = "returned"
    /\ overtaken
    /\ Len(mols_1) >= 2 /\ Len(mols_2) >= 2
    /\ returned[1][1][1] # returned[1][1][2]

\* The MCS computation of some pair of the product fails.
SomePairFails ==
    \E i \in DOMAIN mols_1, j \in DOMAIN mols_2 :
        compute_mcs_size(<<mols_1[i], mols_2[j]>>).raised

\* C8: when the MCS computation of some pair fails, no matrix is ever returned and
\* the call can only end by raising; a returned matrix is complete and comes from a
\* call in which no pair failed; no task is executed more than once.
McsFailureAbortsCall ==
    /\ \A t \in DOMAIN executions : executions[t] <= 1
    /\ SomePairFails =>
         /\ returned = Nothing
         /\ pc # "returned"
         /\ (~ENABLED McsStep) => pc = "raised"
    /\ returned # Nothing =>
         /\ ~SomePairFails
         /\ pc = "returned"
         /\ Len(returned[1]) = Len(mols_1)
         /\ \A i \in DOMAIN returned[1] : Len(returned[1][i]) = Len(mols_2)

\* The call raised after results had already been collected.
McsRaisedAfterPartialResults ==
    /\ pc = "raised"
    /\ collected # <<>>
    /\ \E t \in DOMAIN finished : finished[t].raised
    /\ returned = Nothing

\* C2: a lookup of a name that is not in the registry, by get_similarity_function or
\* by compute_max_similarities, raises a ValueError that names the key, returns no
\* function, and starts no pairwise similarity computation.
UnknownNameRaises ==
    [][ call' # call =>
          (call'.similarity_type \notin DOMAIN registry =>
              /\ call'.raised
              /\ call'.error = "ValueError"
              /\ call'.key = call'.similarity_type
              /\ call'.fn = NoFn
              /\ call'.started = 0
              /\ call'.result = <<>>) ]_vars

\* compute_max_similarities was called with a name that was not registered.
ComputeMaxRaisedOnUnknownName ==
    /\ call.op = "compute_max_similarities"
    /\ call.similarity_type = "custom"
    /\ call.raised
    /\ call.key = "custom"

\* The function last registered under a name: by the registrations made since the
\* import, else by the module's own decorators; NoFn when there is none.
LatestRegistration(name) ==
    LET at == {i \in DOMAIN history : history[i][1] = name}
    IN  IF at # {} THEN history[CHOOSE i \in at : \A j \in at : j <= i][2]
        ELSE IF name = "tanimoto" THEN TanimotoFn
        ELSE IF name = "mcs" THEN McsFn
        ELSE IF name = "tversky" THEN TverskyFn
        ELSE NoFn

RegistryReturnsLatest ==
    \A name \in Names :
        LET got == get_similarity_function(registry, name)
        IN  IF LatestRegistration(name) = NoFn THEN got.raised
            ELSE ~got.raised /\ got.fn = LatestRegistration(name)

RegistrationKeepsOthers ==
    [][ Len(history') > Len(history) =>
          \A name \in DOMAIN registry :
              name # history'[Len(history')][1] =>
                  name \in DOMAIN registry' /\ registry'[name] = registry[name] ]_vars

\* C9: get_similarity_function returns, for every name, the function most recently
\* registered under it, and a registration changes no other name's entry.
RegistryOverwrites == []RegistryReturnsLatest /\ RegistrationKeepsOthers

\* A name was registered a second time with another function, and a lookup then
\* returned the second one.
LookupAfterOverwrite ==
    /\ call.op = "get_similarity_function"
    /\ ~call.raised
    /\ \E i, j \in DOMAIN history :
         /\ i < j
         /\ history[i][1] = call.similarity_type
         /\ history[j][1] = call.similarity_type
         /\ history[i][2] # history[j][2]
         /\ call.fn = history[j][2]
         /\ LatestRegistration(call.similarity_type) = history[j][2]

\* C3: in a self-comparison of at least 2 molecules, the value of row i is the
\* largest entry (i, j) with j # i.
MaxSkipsDiagonal ==
    (/\ call.op = "compute_max_similarities"
     /\ ~call.raised
     /\ call.reference_mols = Nothing
     /\ Len(call.mols) >= 2) =>
        LET m == Apply(call.fn, call.mols, Nothing)
        IN  /\ Len(call.result) = Len(call.mols)
            /\ \A i \in DOMAIN call.mols :
                 /\ \E j \in DOMAIN call.mols : j # i /\ call.result[i] = m[i][j]
                 /\ \A j \in DOMAIN call.mols : j # i => Leq(m[i][j], call.result[i])

\* A self-comparison of 3 molecules in which a row's diagonal entry is larger than
\* the value returned for the row.
SelfComparisonBelowDiagonal ==
    /\ call.op = "compute_max_similarities"
    /\ ~call.raised
    /\ call.reference_mols = Nothing
    /\ Len(call.mols) >= 3
    /\ \E i \in DOMAIN call.mols :
         Less(call.result[i], Apply(call.fn, call.mols, Nothing)[i][i])

\* C4: after a successful annotation, every row's nearest_neighbor is the reference
\* SMILES of the lowest column that holds the row's largest similarity, and its
\* nearest_neighbor_similarity is that largest similarity; in a run of
\* nearest_neighbor_tanimoto the similarities are the Tanimoto similarities of the
\* row's SMILES and the reference SMILES.
NearestNeighborIsFirstMaximum ==
    (nn.op # "none" /\ ~nn.raised) =>
        \A i \in DOMAIN data :
            /\ \E j \in DOMAIN nn.similarities[i] :
                 /\ \A k \in DOMAIN nn.similarities[i] :
                      Leq(nn.similarities[i][k], nn.similarities[i][j])
                 /\ \A k \in 1..(j - 1) :
                      Less(nn.similarities[i][k], nn.similarities[i][j])
                 /\ columns[ColumnName(nn.prefix, "nearest_neighbor")][i] =
                        nn.reference_smiles[j]
                 /\ columns[ColumnName(nn.prefix, "nearest_neighbor_similarity")][i] =
                        nn.similarities[i][j]
            /\ nn.op = "nearest_neighbor_tanimoto" =>
                 \A j \in DOMAIN nn.reference_smiles :
                     nn.similarities[i][j] =
                         TanimotoOfBits(Range(data[i]), Range(nn.reference_smiles[j]))

\* A run in which two columns tie for a row's largest similarity.
NearestNeighborTie ==
    /\ nn.op = "nearest_neighbor_tanimoto"
    /\ ~nn.raised
    /\ \E i \in DOMAIN data :
         \E j, k \in DOMAIN nn.similarities[i] :
             /\ j < k
             /\ nn.similarities[i][j] = nn.similarities[i][k]
             /\ \A l \in DOMAIN nn.similarities[i] :
                  Leq(nn.similarities[i][l], nn.similarities[i][j])
             /\ columns[ColumnName(nn.prefix, "nearest_neighbor")][i] =
                    nn.reference_smiles[j]

\* C5: in a run of nearest_neighbor_tanimoto the reference SMILES of the matrix
\* columns are the distinct SMILES of the reference input, each once, in ascending
\* order, and every row of the matrix has one column per distinct SMILES.
ReferenceColumnsDistinctSorted ==
    nn.op = "nearest_neighbor_tanimoto" =>
        /\ Range(nn.reference_smiles) = Range(nn.reference_in)
        /\ Len(nn.reference_smiles) = Cardinality(Range(nn.reference_in))
        /\ \A i, j \in DOMAIN nn.reference_smiles :
             i < j => StrLess(nn.reference_smiles[i], nn.reference_smiles[j])
        /\ \A i \in DOMAIN nn.similarities :
             Len(nn.similarities[i]) = Cardinality(Range(nn.reference_in))

\* A run whose reference input held a duplicate and was not in ascending order.
ReferenceInputDuplicatedUnsorted ==
    /\ nn.op = "nearest_neighbor_tanimoto"
    /\ Len(nn.reference_smiles) >= 2
    /\ Len(nn.reference_smiles) < Len(nn.reference_in)
    /\ \E i \in 1..(Len(nn.reference_in) - 1) :
         StrLess(nn.reference_in[i + 1], nn.reference_in[i])

\* C7: a call of add_nearest_neighbors whose matrix has not one column per reference
\* SMILES raises an AssertionError and leaves the table's columns as they were.
ShapeMismatchAborts ==
    [][ (/\ nn.op = "none"
         /\ nn'.op # "none"
         /\ Len(nn'.similarities[1]) # Len(nn'.reference_smiles)) =>
            /\ nn'.raised
            /\ nn'.error = "AssertionError"
            /\ columns' = columns ]_vars

\* A mismatched call on a table that already held the two columns.
ShapeMismatchOnAnnotatedTable ==
    /\ nn.op = "add_nearest_neighbors"
    /\ Len(nn.similarities[1]) # Len(nn.reference_smiles)
    /\ nn.raised
    /\ nn.prefix = <<>>
    /\ ColumnName(<<>>, "nearest_neighbor") \in DOMAIN columns

\* The rows of the input whose SMILES parses.
ParsedRows == {i \in DOMAIN canon.input : MolFromSmiles(canon.input[i]).parsed}

\* C6: with default settings the output holds exactly the rows whose SMILES parsed,
\* in their original order, each with the canonical SMILES of its own molecule, and
\* the number of invalid molecules reported is the number of rows dropped (nothing
\* is reported when none is dropped).
DefaultRunDropsInvalidRows ==
    (canon.ran /\ ~canon.remove_salts /\ ~canon.delete_disconnected_mols) =>
        /\ {canon.output[k].row : k \in DOMAIN canon.output} = ParsedRows
        /\ Len(canon.output) = Cardinality(ParsedRows)
        /\ \A k, l \in DOMAIN canon.output :
             k < l => canon.output[k].row < canon.output[l].row
        /\ \A k \in DOMAIN canon.output :
             canon.output[k].smiles =
                 MolToSmiles(MolFromSmiles(canon.input[canon.output[k].row]))
        /\ canon.invalid_reported =
             IF Len(canon.output) < Len(canon.input)
             THEN Some(Len(canon.input) - Len(canon.output))
             ELSE Nothing

\* A default run of three rows whose middle row was invalid and whose last row was
\* rewritten into canonical form.
DefaultRunDroppedMiddleRow ==
    /\ canon.ran /\ ~canon.remove_salts /\ ~canon.delete_disconnected_mols
    /\ Len(canon.input) = 3
    /\ ~MolFromSmiles(canon.input[2]).parsed
    /\ Len(canon.output) = 2
    /\ canon.output[2].row = 3
    /\ canon.output[2].smiles # canon.input[3]
    /\ canon.invalid_reported = Some(1)

\* The SMILES of input row i as it stands after optional salt stripping and
\* canonicalization.
FinalSmiles(i) ==
    LET mol == MolFromSmiles(canon.input[i])
    IN  MolToSmiles(IF canon.remove_salts THEN StripMol(mol) ELSE mol)

RowDeleted(i) == \A k \in DOMAIN canon.output : canon.output[k].row # i

\* C10: a row whose SMILES parses is deleted exactly when delete_disconnected_mols
\* is set and its SMILES after optional salt stripping and canonicalization holds
\* a '.'.
DisconnectedDeletedOnlyOnRequest ==
    canon.ran =>
        \A i \in ParsedRows :
            RowDeleted(i) <=>
                (canon.delete_disconnected_mols /\ "." \in Range(FinalSmiles(i)))

\* A run with both flags set that kept a row which was disconnected only by its
\* salt and deleted a row that stayed disconnected.
SaltRowKeptDisconnectedRowDeleted ==
    /\ canon.ran /\ canon.remove_salts /\ canon.delete_disconnected_mols
    /\ \E i, j \in ParsedRows :
         /\ "." \in Range(canon.input[i])
         /\ ~RowDeleted(i)
         /\ "." \in Range(FinalSmiles(j))
         /\ RowDeleted(j)
====
